---- MODULE Spec2Model ----
(***************************************************************************)
(* Model of the project_todo HTTP service (package main of the repository,  *)
(* the coherent copy in src/unnamed/part_000 lines 35-316): the four        *)
(* request handlers fetchTodos, createTodo, updateTodo, deleteTodo acting   *)
(* on one MongoDB collection, and main()'s start / interrupt / Shutdown     *)
(* sequence.                                                                *)
(*                                                                          *)
(* A handler issues at most one storage call, so every handler is one       *)
(* atomic action taken at the moment of that call.  The record `last`       *)
(* keeps what the most recent request did (the rnd.JSON writes in order,    *)
(* the storage calls in order) and `prev` the collection before it.         *)
(***************************************************************************)
EXTENDS Naturals, Integers, Sequences, FiniteSets, TLC

(* ---------------------------- bounds ---------------------------------- *)
\* number of distinct ObjectIDs the model distinguishes
MaxOid == 2
\* the wall clock runs from TicksPerSecond to MaxClock
MaxClock == 3
\* clock ticks in one second (the resolution below time.RFC3339's seconds)
TicksPerSecond == 2
\* requests that may be in flight at once during the life of the server
MaxInflight == 2

(* ------------------------ program constants --------------------------- *)
\* context.WithTimeout(context.Background(), 5*time.Second) given to srv.Shutdown
DrainBound == 5

(* --------------------------- value domains ---------------------------- *)
\* primitive.ObjectID values (12 bytes in the program)
ObjectIDs == 1..MaxOid
\* primitive.ObjectID{}: the zero value left in objectId when parsing fails
NilObjectID == 0
\* time.Time{}: the zero time a missing field decodes to
ZeroTime == 0
\* titles a body can carry: empty, whitespace only, ordinary
Titles == {"", " ", "a"}
\* A path parameter is a string, modelled as a sequence of tokens: a token
\* i \in ObjectIDs stands for the 24 hex digits of ObjectID i, SpaceTok for a
\* run of white space, JunkTok for characters that are not hex digits.
SpaceTok == 0
JunkTok == -1
PathParams ==
    {<<i>> : i \in ObjectIDs}
        \cup {<<SpaceTok, 1, SpaceTok>>, <<JunkTok>>}
\* decoded request bodies: err is json.Decoder.Decode's error (a syntax error
\* leaves the struct zero, a type error in one field leaves the others set)
Bodies == [err : BOOLEAN, title : Titles, is_completed : BOOLEAN]
\* bodies sent to updateTodo, which reads nothing but todo.Title
UpdateBodies == {t \in Bodies : ~t.is_completed}

VARIABLES
    collection,    \* the mongo collection: ObjectID -> document (key -> value)
    now,           \* the wall clock, in ticks
    oidCounter,    \* primitive.NewObjectID's process counter
    last,          \* what the most recent request did
    prev,          \* the collection before the most recent request
    returned,      \* todo_ids returned by 201 responses so far
    mainPc,        \* position of main()
    listenerPc,    \* position of the goroutine running srv.ListenAndServe
    inflight,      \* requests accepted whose handler has not returned
    drainElapsed,  \* time since srv.Shutdown was called
    interrupted,   \* an os.Interrupt was delivered after signal.Notify
    crashed        \* log.Fatal ended the process (os.Exit(1))

dataVars == <<collection, now, oidCounter, last, prev, returned>>
lifeVars == <<mainPc, listenerPc, inflight, drainElapsed, interrupted>>
vars == <<collection, now, oidCounter, last, prev, returned,
          mainPc, listenerPc, inflight, drainElapsed, interrupted, crashed>>

(* ------------------------- library functions -------------------------- *)
IsSpace(tok) == tok = SpaceTok

RECURSIVE TrimLeft(_)
TrimLeft(s) ==
    IF s # <<>> /\ IsSpace(Head(s)) THEN TrimLeft(Tail(s)) ELSE s

RECURSIVE TrimRight(_)
TrimRight(s) ==
    IF s # <<>> /\ IsSpace(s[Len(s)]) THEN TrimRight(SubSeq(s, 1, Len(s) - 1)) ELSE s

\* strings.TrimSpace
TrimSpace(s) == TrimRight(TrimLeft(s))

\* primitive.ObjectIDFromHex: err # nil unless the string is exactly 24 hex digits
HexOk(s) == Len(s) = 1 /\ s[1] \in ObjectIDs
ObjectIDFromHex(s) == IF HexOk(s) THEN s[1] ELSE NilObjectID

\* ObjectID.Hex
Hex(oid) == <<oid>>

\* time.Parse(time.RFC3339, time.Now().Format(time.RFC3339)): whole seconds
RFC3339RoundTrip(t) == (t \div TicksPerSecond) * TicksPerSecond

\* validate.Struct(&t) on type todo, whose fields carry no validate tag
ValidateStructOk(t) == TRUE

(* ------------------------------ documents ----------------------------- *)
\* bson.Marshal of a todoModel: only ID carries a bson tag, every other key
\* is the lower-cased field name
MarshalTodoModel(m) ==
    [title |-> m.Title, iscompleted |-> m.IsCompleted,
     createdat |-> m.CreatedAt, updatedat |-> m.UpdatedAt]

Field(doc, key, zero) == IF key \in DOMAIN doc THEN doc[key] ELSE zero

\* cursor.All into []todoModel: keys are matched with the same lower-cased names
UnmarshalTodoModel(oid, doc) ==
    [ID |-> oid,
     Title |-> Field(doc, "title", ""),
     IsCompleted |-> Field(doc, "iscompleted", FALSE),
     CreatedAt |-> Field(doc, "createdat", ZeroTime),
     UpdatedAt |-> Field(doc, "updatedat", ZeroTime)]

\* the loop of fetchTodos: todoModel -> todo
ToTodo(m) ==
    [ID |-> Hex(m.ID), Title |-> m.Title, IsCompleted |-> m.IsCompleted,
     CreatedAt |-> m.CreatedAt, UpdatedAt |-> m.UpdatedAt]

\* what fetchTodos answers on collection c (Find with the empty filter)
TodoList(c) == {ToTodo(UnmarshalTodoModel(oid, c[oid])) : oid \in DOMAIN c}

(* --------------------------- storage calls ---------------------------- *)
\* InsertOne on a collection whose _id index does not reject a key in use
InsertOneOk_NoUniqueIndex(c, oid) == TRUE

\* collection.InsertOne: the unique index on _id rejects a key already present
InsertOneOk(c, oid) == oid \notin DOMAIN c
InsertOne(c, oid, doc) == [k \in DOMAIN c \cup {oid} |-> IF k = oid THEN doc ELSE c[k]]

\* DeleteOne with the filter left empty: the first document found is removed
DeleteOne_EmptyFilter(c, oid) ==
    IF DOMAIN c = {} THEN c
    ELSE LET k == CHOOSE x \in DOMAIN c : \A y \in DOMAIN c : x <= y
         IN  [j \in DOMAIN c \ {k} |-> c[j]]

\* collection.DeleteOne with filter {_id: oid}: zero or one document removed
DeleteOne(c, oid) == [k \in DOMAIN c \ {oid} |-> c[k]]

\* the $set document built by updateTodo: keys "title" and "updated_at"
UpdateObj(title, stamp) == [title |-> title, updated_at |-> stamp]

\* $set applied to one document: named keys overwritten or added, others kept
ApplySet(doc, set) ==
    [k \in DOMAIN doc \cup DOMAIN set |-> IF k \in DOMAIN set THEN set[k] ELSE doc[k]]

\* options.UpdateOptions{Upsert: &upsert} with upsert := true
Upsert == TRUE

\* collection.UpdateOne with filter {_id: oid}, {$set: set} and the upsert option
UpdateOne(c, oid, set) ==
    IF oid \in DOMAIN c
    THEN [c EXCEPT ![oid] = ApplySet(c[oid], set)]
    ELSE IF Upsert THEN InsertOne(c, oid, set) ELSE c

(* ----------------------------- responses ------------------------------ *)
\* one rnd.JSON(w, status, ...) call
Write(status, message) == [status |-> status, message |-> message]

NoBody == [err |-> FALSE, title |-> "", is_completed |-> FALSE]

\* the record of one request
Request(op, param, body, fails, writes, calls, panicked, todoId, data) ==
    [op |-> op, param |-> param, body |-> body, fails |-> fails, writes |-> writes,
     calls |-> calls, panicked |-> panicked, todo_id |-> todoId, data |-> data]

\* http.ResponseWriter: the first WriteHeader fixes the status the client sees,
\* later ones are superfluous; a handler that panics before writing sends nothing
ClientStatus(r) == IF r.writes = <<>> THEN 0 ELSE r.writes[1].status

\* the server accepts and runs requests; the connection observed in `last`
\* is idle
Serving ==
    /\ ~crashed /\ mainPc \notin {"stopped"} /\ listenerPc = "listening"
    /\ last.op = "none"

(* ------------------------------ handlers ------------------------------ *)
\* primitive.NewObjectID(): a value this process has not produced before
NewObjectID == oidCounter

Responded(r) ==
    /\ last' = r
    /\ prev' = collection
    /\ UNCHANGED <<now, lifeVars>>

\* GET /todo
fetchTodos(outcome) ==
    /\ Serving
    /\ UNCHANGED <<collection, oidCounter, returned>>
    /\ CASE outcome = "findErr" ->
              \* collection.Find returned an error
              /\ Responded(Request("list", <<>>, NoBody, TRUE,
                     <<Write(500, "Failed to fetch todo")>>, <<"Find">>, FALSE, <<>>, {}))
              /\ UNCHANGED crashed
         [] outcome = "allErr" ->
              \* res.All returned an error: log.Fatal, the process exits
              /\ Responded(Request("list", <<>>, NoBody, TRUE, <<>>, <<"Find">>, FALSE, <<>>, {}))
              /\ crashed' = TRUE
         [] OTHER ->
              /\ Responded(Request("list", <<>>, NoBody, FALSE,
                     <<Write(200, "data")>>, <<"Find">>, FALSE, <<>>, TodoList(collection)))
              /\ UNCHANGED crashed

\* createTodo without its title check
TitleMissing_Never(t) == FALSE

\* the condition of createTodo's third check: t.Title == ""
TitleMissing(t) == t.title = ""

\* POST /todo
createTodo(t, insertFails) ==
    /\ Serving
    /\ UNCHANGED crashed
    /\ IF t.err
       THEN \* json decode error
            /\ Responded(Request("create", <<>>, t, insertFails, <<Write(400, "decode")>>, <<>>,
                                  FALSE, <<>>, {}))
            /\ UNCHANGED <<collection, oidCounter, returned>>
       ELSE IF ~ValidateStructOk(t)
       THEN /\ Responded(Request("create", <<>>, t, insertFails,
                   <<Write(400, "Error parsing your request")>>, <<>>, FALSE, <<>>, {}))
            /\ UNCHANGED <<collection, oidCounter, returned>>
       ELSE IF TitleMissing(t)
       THEN /\ Responded(Request("create", <<>>, t, insertFails,
                   <<Write(400, "Title is required")>>, <<>>, FALSE, <<>>, {}))
            /\ UNCHANGED <<collection, oidCounter, returned>>
       ELSE LET todoModel == [ID |-> NewObjectID, Title |-> t.title, IsCompleted |-> FALSE,
                              CreatedAt |-> now, UpdatedAt |-> now]
            IN  /\ oidCounter <= MaxOid
                /\ oidCounter' = oidCounter + 1
                /\ IF insertFails \/ ~InsertOneOk(collection, todoModel.ID)
                   THEN /\ Responded(Request("create", <<>>, t, insertFails,
                               <<Write(500, "Todo Creation failed")>>, <<"InsertOne">>,
                               FALSE, <<>>, {}))
                        /\ UNCHANGED <<collection, returned>>
                   ELSE /\ collection' =
                               InsertOne(collection, todoModel.ID, MarshalTodoModel(todoModel))
                        /\ returned' = returned \cup {Hex(todoModel.ID)}
                        /\ Responded(Request("create", <<>>, t, insertFails,
                               <<Write(201, "Todo creation successful")>>, <<"InsertOne">>,
                               FALSE, Hex(todoModel.ID), {}))

\* DELETE /todo/{id}
deleteTodo(param, deleteFails) ==
    LET id == TrimSpace(param)
        objectId == ObjectIDFromHex(id)
    IN  /\ Serving
        /\ UNCHANGED <<oidCounter, returned, crashed>>
        /\ IF ~HexOk(id)
           THEN \* log.Panic(id): the handler unwinds here, net/http recovers the
                \* panic and closes the connection; the rnd.JSON below it never runs
                /\ Responded(Request("delete", param, NoBody, deleteFails, <<>>, <<>>, TRUE, <<>>, {}))
                /\ UNCHANGED collection
           ELSE IF deleteFails
           THEN /\ Responded(Request("delete", param, NoBody, deleteFails,
                       <<Write(500, "Error deleting the todo")>>, <<"DeleteOne">>,
                       FALSE, <<>>, {}))
                /\ UNCHANGED collection
           ELSE /\ collection' = DeleteOne(collection, objectId)
                /\ Responded(Request("delete", param, NoBody, deleteFails,
                       <<Write(200, "Todo deletion successful")>>, <<"DeleteOne">>,
                       FALSE, id, {}))

\* the condition of updateTodo's if: todo.Title != "" || &(todo.Title) != nil;
\* the address of a local variable is never nil
TitleGiven(t) == t.title # "" \/ TRUE

\* the writes of updateTodo's decode step: it answers 400 and does not return
DecodeWrites(t) == IF t.err THEN <<Write(400, "Bad request")>> ELSE <<>>

\* PUT /todo/{id}
updateTodo(param, t, updateFails) ==
    LET id == TrimSpace(param)
        objectID == ObjectIDFromHex(id)
        w == DecodeWrites(t)
        updatedAt == RFC3339RoundTrip(now)
    IN  /\ Serving
        /\ UNCHANGED <<oidCounter, returned, crashed>>
        /\ IF ~HexOk(id)
           THEN /\ Responded(Request("update", param, t, updateFails,
                       <<Write(400, "Error Parsing your request")>>, <<>>, FALSE, <<>>, {}))
                /\ UNCHANGED collection
           ELSE IF TitleGiven(t)
           THEN IF updateFails
                THEN /\ Responded(Request("update", param, t, updateFails,
                            w \o <<Write(500, "Update Failed")>>, <<"UpdateOne">>,
                            FALSE, <<>>, {}))
                     /\ UNCHANGED collection
                ELSE /\ collection' =
                            UpdateOne(collection, objectID, UpdateObj(t.title, updatedAt))
                     /\ Responded(Request("update", param, t, updateFails,
                            w \o <<Write(200, "Update Successful")>>, <<"UpdateOne">>,
                            FALSE, id, {}))
           ELSE /\ Responded(Request("update", param, t, updateFails,
                       w \o <<Write(400, "Title is required")>>, <<>>, FALSE, <<>>, {}))
                /\ UNCHANGED collection

\* time passes
Tick ==
    /\ ~crashed
    /\ last.op = "none"
    /\ now < MaxClock
    /\ now' = now + 1
    /\ UNCHANGED <<collection, oidCounter, last, prev, returned, lifeVars, crashed>>

(* --------------------------- specification ---------------------------- *)
NoRequest == Request("none", <<>>, NoBody, FALSE, <<>>, <<>>, FALSE, <<>>, {})

\* the handler has returned and the client has read what was sent: nothing of
\* the request is kept (var t todo, ctx and w are locals of the handler)
Completed ==
    /\ ~crashed
    /\ last.op # "none"
    /\ last' = NoRequest
    /\ prev' = <<>>
    /\ UNCHANGED <<collection, now, oidCounter, returned, lifeVars, crashed>>

\* the server is up: main() waits on stopChannel, ListenAndServe accepts
Init ==
    /\ collection = <<>>
    /\ now = TicksPerSecond
    /\ oidCounter = 1
    /\ last = NoRequest
    /\ prev = <<>>
    /\ returned = {}
    /\ mainPc = "wait"
    /\ listenerPc = "listening"
    /\ inflight = 0
    /\ drainElapsed = 0
    /\ interrupted = FALSE
    /\ crashed = FALSE

Next ==
    \/ \E outcome \in {"ok", "findErr", "allErr"} : fetchTodos(outcome)
    \/ \E t \in Bodies, f \in BOOLEAN : createTodo(t, f)
    \/ \E p \in PathParams, t \in UpdateBodies, f \in BOOLEAN : updateTodo(p, t, f)
    \/ \E p \in PathParams, f \in BOOLEAN : deleteTodo(p, f)
    \/ Completed
    \/ Tick

Spec == Init /\ [][Next]_vars

(* ------------------------- lifecycle of main() ------------------------ *)
\* the process runs: main() has not returned and log.Fatal was not called
Alive == ~crashed /\ mainPc # "stopped"

\* srv.Shutdown has been called: inShutdown is set and the listeners are closed
InShutdown == mainPc \in {"shutdown", "stopped"}

\* the states of the Lifecycle Controller, from the position of main()
Lifecycle ==
    CASE mainPc \in {"setup", "spawned"} -> "Starting"
      [] mainPc = "wait" -> "Serving"
      [] mainPc \in {"signalled", "shutdown"} -> "Draining"
      [] OTHER -> "Stopped"

\* the process is gone: main() returned, or log.Fatal called os.Exit(1)
Exited == mainPc = "stopped" \/ crashed

\* go func() { ... srv.ListenAndServe() ... }()
MainGo ==
    /\ Alive /\ mainPc = "setup"
    /\ mainPc' = "spawned"
    /\ listenerPc' = "start"
    /\ UNCHANGED <<dataVars, inflight, drainElapsed, interrupted, crashed>>

\* main() parks in <-stopChannel
MainBlock ==
    /\ Alive /\ mainPc = "spawned"
    /\ mainPc' = "wait"
    /\ UNCHANGED <<dataVars, listenerPc, inflight, drainElapsed, interrupted, crashed>>

\* stopChannel := make(chan os.Signal) has no buffer, and package signal sends
\* without blocking: the value is handed over only to a receiver already
\* parked in <-stopChannel, otherwise it is dropped
SignalHandedOver == mainPc = "wait"

\* an os.Interrupt arrives (signal.Notify is in force from the first state on)
Interrupt ==
    /\ Alive
    /\ interrupted' = TRUE
    /\ mainPc' = IF SignalHandedOver THEN "signalled" ELSE mainPc
    /\ UNCHANGED <<dataVars, listenerPc, inflight, drainElapsed, crashed>>

\* ctx, cancel := context.WithTimeout(..., 5*time.Second); srv.Shutdown(ctx) begins
MainShutdown ==
    /\ Alive /\ mainPc = "signalled"
    /\ mainPc' = "shutdown"
    /\ drainElapsed' = 0
    /\ UNCHANGED <<dataVars, listenerPc, inflight, interrupted, crashed>>

\* srv.Shutdown given a context without deadline
ShutdownReturns_NoDeadline == inflight = 0

\* srv.Shutdown returns: every connection is idle, or ctx is done
ShutdownReturns == inflight = 0 \/ drainElapsed >= DrainBound

\* srv.Shutdown returned, main() returns and the process exits
MainExit ==
    /\ Alive /\ mainPc = "shutdown"
    /\ ShutdownReturns
    /\ mainPc' = "stopped"
    /\ UNCHANGED <<dataVars, listenerPc, inflight, drainElapsed, interrupted, crashed>>

\* the time of ctx passes while srv.Shutdown polls
DrainTick ==
    /\ Alive /\ mainPc = "shutdown"
    /\ drainElapsed < DrainBound
    /\ drainElapsed' = drainElapsed + 1
    /\ UNCHANGED <<dataVars, mainPc, listenerPc, inflight, interrupted, crashed>>

\* the goroutine enters srv.ListenAndServe: it listens, or the listen fails,
\* or the server is already shut down (ErrServerClosed)
ListenerStart ==
    /\ Alive /\ listenerPc = "start"
    /\ IF InShutdown
       THEN listenerPc' = "returned"
       ELSE listenerPc' \in {"listening", "failed"}
    /\ UNCHANGED <<dataVars, mainPc, inflight, drainElapsed, interrupted, crashed>>

\* srv.Shutdown closed the listener: ListenAndServe returns ErrServerClosed
ListenerReturn ==
    /\ Alive /\ listenerPc = "listening" /\ InShutdown
    /\ listenerPc' = "returned"
    /\ UNCHANGED <<dataVars, mainPc, inflight, drainElapsed, interrupted, crashed>>

\* a connection is accepted and its handler starts
Accept ==
    /\ Alive /\ listenerPc = "listening" /\ ~InShutdown
    /\ inflight < MaxInflight
    /\ inflight' = inflight + 1
    /\ UNCHANGED <<dataVars, mainPc, listenerPc, drainElapsed, interrupted, crashed>>

\* a handler returns and its connection becomes idle
HandlerReturns ==
    /\ Alive /\ inflight > 0
    /\ inflight' = inflight - 1
    /\ UNCHANGED <<dataVars, mainPc, listenerPc, drainElapsed, interrupted, crashed>>

\* fetchTodos: res.All fails, log.Fatal ends the process
HandlerFatal ==
    /\ Alive /\ inflight > 0
    /\ crashed' = TRUE
    /\ UNCHANGED <<dataVars, lifeVars>>

\* main() right after signal.Notify(stopChannel, os.Interrupt)
LifeInit ==
    /\ collection = <<>>
    /\ now = TicksPerSecond
    /\ oidCounter = 1
    /\ last = NoRequest
    /\ prev = <<>>
    /\ returned = {}
    /\ mainPc = "setup"
    /\ listenerPc = "none"
    /\ inflight = 0
    /\ drainElapsed = 0
    /\ interrupted = FALSE
    /\ crashed = FALSE

MainStep == MainGo \/ MainBlock \/ MainShutdown \/ MainExit
ListenerStep == ListenerStart \/ ListenerReturn

LifeNext ==
    \/ MainGo
    \/ MainBlock
    \/ Interrupt
    \/ MainShutdown
    \/ MainExit
    \/ DrainTick
    \/ ListenerStart
    \/ ListenerReturn
    \/ Accept
    \/ HandlerReturns
    \/ HandlerFatal

\* the Go scheduler runs every runnable goroutine, and time passes; nothing
\* obliges the environment to send a signal or a handler to return
LifeSpec ==
    /\ LifeInit /\ [][LifeNext]_vars
    /\ WF_vars(MainStep)
    /\ WF_vars(ListenerStep)
    /\ WF_vars(DrainTick)

(* ============================== claims ================================ *)
\* the path parameter of the last request names a record key
ParamValid == HexOk(TrimSpace(last.param))
\* the record key the last request addresses
Target == ObjectIDFromHex(TrimSpace(last.param))
\* the entry a List shows for record oid of collection c
Entry(c, oid) == ToTodo(UnmarshalTodoModel(oid, c[oid]))

\* C1: an Update with a valid identifier and an empty title is answered 400,
\* leaves the collection as it was and issues no storage call.
C1_UpdateEmptyTitleRejected ==
    (last.op = "update" /\ ParamValid /\ last.body.title = "")
        => /\ ClientStatus(last) = 400
           /\ collection = prev
           /\ last.calls = <<>>

\* C2: an Update or Delete whose path identifier is not a valid record key is
\* answered 400 and issues no storage call.
C2_MalformedIdRejected ==
    (last.op \in {"update", "delete"} /\ ~ParamValid)
        => /\ ClientStatus(last) = 400
           /\ last.calls = <<>>

\* C3 as stated: a Create whose title is empty or only white space is answered
\* 400 and inserts nothing.
C3_BlankTitleRejected ==
    (last.op = "create" /\ last.body.title \in {"", " "})
        => /\ ClientStatus(last) = 400
           /\ collection = prev

\* C3 amended: a Create whose title is the empty string is answered 400, issues
\* no storage call and inserts nothing; a title of white space only passes the
\* title check like any other non-empty title: when the body decodes the
\* request goes on to InsertOne, and a 201 stores the record with that title.
C3_EmptyTitleRejected ==
    /\ (last.op = "create" /\ last.body.title = "")
          => /\ ClientStatus(last) = 400
             /\ collection = prev
             /\ last.calls = <<>>
    /\ (last.op = "create" /\ last.body.title = " " /\ ~last.body.err)
          => /\ last.calls = <<"InsertOne">>
             /\ ClientStatus(last) \in {201, 500}
             /\ ClientStatus(last) = 201
                  => Entry(collection, ObjectIDFromHex(last.todo_id)).Title = " "

C3_Witness ==
    /\ last.op = "create" /\ last.body.title = "" /\ ~last.body.err
    /\ ClientStatus(last) = 400
    /\ prev # <<>>
    /\ \E oid \in DOMAIN collection : Entry(collection, oid).Title = " "

\* C4: after a successful Update (200) with a non-empty title on an existing
\* record, the record as listed differs from before in exactly title (the
\* requested one) and updatedAt (newer); identifier, isCompleted and createdAt
\* are unchanged, and no other record changes.
C4_UpdateChangesTitleAndUpdatedAt ==
    (last.op = "update" /\ ParamValid /\ ClientStatus(last) = 200
         /\ last.body.title # "" /\ Target \in DOMAIN prev)
        => /\ Target \in DOMAIN collection
           /\ LET before == Entry(prev, Target)
                  after == Entry(collection, Target)
              IN  /\ after.Title = last.body.title
                  /\ after.UpdatedAt > before.UpdatedAt
                  /\ after.ID = before.ID
                  /\ after.IsCompleted = before.IsCompleted
                  /\ after.CreatedAt = before.CreatedAt
           /\ DOMAIN collection = DOMAIN prev
           /\ \A oid \in DOMAIN prev \ {Target} : collection[oid] = prev[oid]

\* The step of C5: a Create answered 201 returns a todo_id that no record of the collection
\* had and that no earlier 201 returned; the List taken right after it has
\* exactly one entry with that identifier, with the requested title and
\* isCompleted = false whatever is_completed the body carried.
C5_CreateStep ==
    (last.op = "none" /\ last'.op = "create" /\ ClientStatus(last') = 201)
        => /\ \A e \in TodoList(collection) : e.ID # last'.todo_id
           /\ last'.todo_id \notin returned
           /\ LET hits == {e \in TodoList(collection') : e.ID = last'.todo_id}
              IN  /\ Cardinality(hits) = 1
                  /\ \A e \in hits : e.Title = last'.body.title /\ e.IsCompleted = FALSE
\* C5: every step in which a Create is answered 201 satisfies C5_CreateStep.
C5_CreatedIdIsNewAndListed == [][C5_CreateStep]_vars

C5_Witness ==
    /\ last.op = "create" /\ ClientStatus(last) = 201
    /\ last.body.is_completed
    /\ prev # <<>>
    /\ Cardinality(returned) >= 2

\* C6: the set of identifiers in the collection gains a member only through a
\* Create answered 201 and loses one only through a Delete answered 200; an
\* Update never adds a record.
C6_OnlyCreateAddsOnlyDeleteRemoves ==
    last.op # "none"
        => /\ (DOMAIN collection \ DOMAIN prev # {})
                 => (last.op = "create" /\ ClientStatus(last) = 201)
           /\ (DOMAIN prev \ DOMAIN collection # {})
                 => (last.op = "delete" /\ ClientStatus(last) = 200)

\* C7: a Delete with a well-formed identifier that matches no record, whose
\* DeleteOne call the backend serves, is answered 200 and leaves the collection
\* unchanged; every served Delete is answered 200 and leaves no record with
\* that identifier, so repeating it gives 200 again and the same collection.
C7_DeleteIsIdempotent ==
    (last.op = "delete" /\ ParamValid /\ ~last.fails)
        => /\ ClientStatus(last) = 200
           /\ Target \notin DOMAIN collection
           /\ Target \notin DOMAIN prev => collection = prev
           /\ \A oid \in DOMAIN prev \ {Target} :
                  oid \in DOMAIN collection /\ collection[oid] = prev[oid]
           /\ DeleteOne(collection, Target) = collection

C7_Witness ==
    /\ last.op = "delete" /\ ParamValid /\ ~last.fails
    /\ Target \notin DOMAIN prev
    /\ prev # <<>>
    /\ Hex(Target) \in returned
    /\ ClientStatus(last) = 200

\* C9: every request issues at most one storage call and gets exactly one
\* response, and a failed step (identifier parse, body decode, validation,
\* empty title, storage call) ends the request with its error response: no
\* later step runs, no storage call follows a 400, no second response is
\* written.  (The scan failure of List, which ends the process, is left out.)
C9_OneCallOneResponse ==
    (last.op # "none" /\ ~crashed)
        => /\ Len(last.calls) <= 1
           /\ Len(last.writes) = 1
           /\ ~last.panicked
           /\ (last.body.err \/ (last.param # <<>> /\ ~ParamValid)) => last.calls = <<>>
           /\ ClientStatus(last) = 400 => last.calls = <<>>

(* ------------------------- lifecycle claims --------------------------- *)
LifecycleOrder ==
    \/ Lifecycle' = Lifecycle
    \/ <<Lifecycle, Lifecycle'>> \in
          {<<"Starting", "Serving">>, <<"Serving", "Draining">>, <<"Draining", "Stopped">>}

ExitOnlyDrainedOrExpired ==
    (Lifecycle = "Draining" /\ Lifecycle' = "Stopped")
        => (inflight = 0 \/ drainElapsed = DrainBound)

\* C8: once main() has received the interrupt (Draining) the process always
\* exits; main() leaves Draining only when no request is in flight or the
\* 5-unit bound has expired, a request still running at the bound does not
\* delay the exit, and the states are visited only in the order Starting,
\* Serving, Draining, Stopped.
C8_DrainingAlwaysStops ==
    /\ [][LifecycleOrder]_vars
    /\ [][ExitOnlyDrainedOrExpired]_vars
    /\ (Lifecycle = "Draining") ~> Exited
    /\ (Lifecycle = "Draining" /\ drainElapsed = DrainBound) ~> Exited

C8_Witness ==
    /\ mainPc = "stopped"
    /\ inflight > 0
    /\ drainElapsed = DrainBound
    /\ ~crashed

\* C10: an os.Interrupt delivered at any moment after signal.Notify is consumed
\* by main() and takes the process to Draining and then to exit.
C10_InterruptNeverLost == interrupted ~> Exited

====
